---- MODULE Spec2Model ----
(***************************************************************************)
(* A model of the streaming completion pipeline of sgpt: the Cache         *)
(* decorator (sgpt/cache.py) wrapped around get_completion, the decoder    *)
(* loop Handler.complete / AgentABC.complete, and the two tool invokers    *)
(* handle_function_call (interactive in Handler, unattended in AgentABC).  *)
(*                                                                         *)
(* A Python str is modelled as a sequence of tokens (a Text); string       *)
(* concatenation is \o.  The marker "@FunctionCall" is one token, so the   *)
(* test `"@FunctionCall" in result` is membership of that token.           *)
(***************************************************************************)
EXTENDS Integers, Sequences, FiniteSets, TLC

\* ---------------------------------------------------------------- bounds
MaxTurns  == 2   \* calls of handle() in one process
MaxLegs   == 2   \* completion requests within one turn
MaxChunks == 2   \* chunks the transport delivers in one process
MaxLength == 2   \* largest configured cache capacity (CACHE_LENGTH)
MaxCalls  == 3   \* calls made on one FilesView and its files, or on
                 \* get_completion when it is looked at alone

\* ----------------------------------------------------------------- texts
Marker   == "@FunctionCall"
Sentinel == <<"The user declined to execute this function.">>
Null     == <<"None">>      \* Python's None where a str is optional

Range(s) == {s[i] : i \in DOMAIN s}

RECURSIVE Flatten(_)
\* "".join(fragments)
Flatten(fs) == IF fs = <<>> THEN <<>> ELSE Head(fs) \o Flatten(Tail(fs))

\* str.lower() on the characters an operator can type here
LowerChar(c) == IF c = "Y" THEN "y" ELSE IF c = "N" THEN "n" ELSE c
Lower(s) == [i \in DOMAIN s |-> LowerChar(s[i])]

RECURSIVE LStrip(_)
LStrip(s) == IF s # <<>> /\ Head(s) = " " THEN LStrip(Tail(s)) ELSE s
RECURSIVE RStrip(_)
RStrip(s) == IF s # <<>> /\ s[Len(s)] = " " THEN RStrip(SubSeq(s, 1, Len(s) - 1)) ELSE s
\* str.strip()
Strip(s) == RStrip(LStrip(s))

\* --------------------------------------------------------------- messages
NoCall == [name |-> "", arguments |-> <<>>]
\* one entry of the `messages` list
Message(role, content, name, call) ==
    [role |-> role, content |-> content, name |-> name, function_call |-> call]

SystemRole == <<"Default Assistant for managing user queries.">>

\* DefaultHandler.make_messages: a fresh two-message list per turn
Handler_make_messages(prompt) ==
    << Message("system", SystemRole, "", NoCall),
       Message("user", prompt, "", NoCall) >>

\* a make_messages that starts the history over at each turn
Agent_make_messages_fresh(history, prompt) ==
    << Message("system", SystemRole, "", NoCall),
       Message("user", prompt, "", NoCall) >>

\* DefaultAgent.make_messages: the prompt is appended to conversation_history
\* and the history itself is returned
Agent_make_messages(history, prompt) ==
    Append(history, Message("user", prompt, "", NoCall))

\* ------------------------------------------------------------------ cache
\* the key taken after `caching` has been popped from kwargs: the same for
\* both values of the flag
FingerprintWithoutFlag(temperature, msgs, caching) ==
    [temperature |-> temperature, messages |-> msgs, caching |-> TRUE]

\* Cache.wrapper: key = md5(json.dumps((args[1:], kwargs))); every call site
\* passes keyword arguments only, and "caching" is still in kwargs when the key
\* is taken.  The digest is modelled by the serialized value itself.
Fingerprint(temperature, msgs, caching) ==
    [temperature |-> temperature, messages |-> msgs, caching |-> caching]

File(name, body, mtime) == [name |-> name, body |-> body, mtime |-> mtime]

\* file.exists()
Exists(d, key) == \E f \in d : f.name = key

RECURSIVE UniversalNewlines(_)
\* text-mode read with newline=None: "\r\n" and "\r" both come back as "\n"
UniversalNewlines(s) ==
    IF s = <<>> THEN <<>>
    ELSE IF Head(s) = "\r"
         THEN IF Len(s) > 1 /\ s[2] = "\n"
              THEN <<"\n">> \o UniversalNewlines(Tail(Tail(s)))
              ELSE <<"\n">> \o UniversalNewlines(Tail(s))
         ELSE <<Head(s)>> \o UniversalNewlines(Tail(s))

\* the stored entry is served whatever the caching argument says
ServedWhenStored(flag, d, key) == Exists(d, key)

\* `if kwargs.pop("caching") and file.exists()`
ServedFromCache(flag, d, key) == flag /\ Exists(d, key)

\* file.read_text()
read_text(d, key) == UniversalNewlines((CHOOSE f \in d : f.name = key).body)

\* file.write_text(result): creates or overwrites, and stamps the time (on
\* POSIX a text-mode write stores the text as it is)
write_text(d, key, body, t) ==
    {f \in d : f.name # key} \cup {File(key, body, t)}

\* the marker test as a prefix test
HasMarkerAtStart(result) == result # <<>> /\ Head(result) = Marker

\* `if "@FunctionCall" not in result`
HasMarker(result) == Marker \in Range(result)

\* the wrapper's tail: write unless the marker is present
WrapperWrite(d, key, result, t) ==
    IF ~HasMarker(result) THEN write_text(d, key, result, t) ELSE d

\* the listings in descending mtime order
SortedNewestFirst(d) ==
    {s \in [1..Cardinality(d) -> d] :
        /\ \A i, j \in DOMAIN s : i # j => s[i] # s[j]
        /\ \A i, j \in DOMAIN s : i < j => s[i].mtime >= s[j].mtime}

\* sorted(files, key=lambda f: f.stat().st_mtime): every listing of the
\* directory in ascending mtime order (glob order decides among equal mtimes)
SortedByMtime(d) ==
    {s \in [1..Cardinality(d) -> d] :
        /\ \A i, j \in DOMAIN s : i # j => s[i] # s[j]
        /\ \A i, j \in DOMAIN s : i < j => s[i].mtime <= s[j].mtime}

\* one file too few
NumFilesToDeleteShort(files, max_files) ==
    IF Len(files) > max_files THEN Len(files) - max_files - 1 ELSE 0

\* num_files_to_delete
NumFilesToDelete(files, max_files) ==
    IF Len(files) > max_files THEN Len(files) - max_files ELSE 0

\* Cache._delete_oldest_files on a sorted listing: what is left
DeleteOldestFiles(files, max_files) ==
    Range(files) \ {files[i] : i \in 1..NumFilesToDelete(files, max_files)}

\* ---------------------------------------------------------------- inputs
Prompts      == { <<"List files in /tmp">>, <<" ", "List files in /tmp", " ">> }
Temperatures == { 0 }
\* what the operator may type at typer.prompt("")
RawAnswers   == { <<"y">>, <<" ", "Y">>, <<"n">>, <<"y", "e", "s">> }

ArgOpen  == "{\"path\":"
ArgClose == "\"/tmp\"}"
ShellTool == "execute_shell_command"
PythonTool == "execute_python_code"

\* delta.content of one chunk
TextDeltas   == { Null, <<"a", "\r">>, <<Marker>> }
\* delta.tool_calls of one chunk: absent, or one fragment (parallel calls are off)
\* (the first fragment of a call names the tool, the later ones do not; a
\* fragment may also name another tool)
ToolFragments ==
    { [name |-> ShellTool, arguments |-> <<ArgOpen>>],
      [name |-> "", arguments |-> <<ArgClose>>],
      [name |-> PythonTool, arguments |-> <<ArgOpen>>] }
ToolCallLists == { <<>> } \cup { <<t>> : t \in ToolFragments }
FinishReasons == { "None", "stop", "tool_calls" }
Chunk(content, tool_calls, finish_reason) ==
    [content |-> content, tool_calls |-> tool_calls, finish_reason |-> finish_reason]
\* text chunks, tool-call chunks, and a chunk that carries text together with
\* the "tool_calls" finish reason
Chunks ==
    { Chunk(c, <<>>, f) : c \in TextDeltas, f \in {"None", "stop"} }
    \cup { Chunk(Null, tc, f) : tc \in ToolCallLists, f \in {"None", "tool_calls"} }
    \cup { Chunk(<<"a">>, <<>>, "tool_calls") }

\* what get_function(name)(**dict_args) may do: return a str, return a
\* structured dict, or raise
StrResult(text) ==
    [kind |-> "str", status |-> "", text |-> text, file_hash |-> <<>>]
DictResult(status, text, hash) ==
    [kind |-> "dict", status |-> status, text |-> text, file_hash |-> hash]
Raises == [kind |-> "raise", status |-> "", text |-> <<>>, file_hash |-> <<>>]
ToolOutcomes ==
    { StrResult(<<"a.txt\nb.txt">>),
      StrResult(Sentinel),
      DictResult("error", <<"boom">>, <<>>),
      DictResult("success", <<"a.txt\nb.txt">>, <<"h1">>),
      Raises }

\* str(result) / f"{result}"
PyStr(r) ==
    IF r.kind = "str" THEN r.text
    ELSE <<"{'status': '", r.status, "', ...}">>

\* ---------------------------------------------------------------- decoder
\* the `for tool_call in tool_calls` loop of complete: a non-empty name
\* replaces the pending name, a non-empty fragment is appended
RECURSIVE DecodeName(_, _)
DecodeName(name, tcs) ==
    IF tcs = <<>> THEN name
    ELSE DecodeName(IF Head(tcs).name # "" THEN Head(tcs).name ELSE name, Tail(tcs))

RECURSIVE DecodeArgumentsPrepend(_, _)
\* `arguments = tool_call.function.arguments + arguments`
DecodeArgumentsPrepend(arguments, tcs) ==
    IF tcs = <<>> THEN arguments
    ELSE DecodeArgumentsPrepend(Head(tcs).arguments \o arguments, Tail(tcs))

RECURSIVE DecodeArguments(_, _)
DecodeArguments(arguments, tcs) ==
    IF tcs = <<>> THEN arguments
    ELSE DecodeArguments(arguments \o Head(tcs).arguments, Tail(tcs))

\* `delta.content or ""`
ContentOrEmpty(content) == IF content = Null THEN <<>> ELSE content

\* ----------------------------------------------------------- tool invoker
\* a parser that takes any string
ValidJSONLenient(arguments) == TRUE

\* json.loads(arguments) followed by dict_args.items(): succeeds on a JSON object
ValidJSON(arguments) == arguments \in { <<ArgOpen, ArgClose>>, <<"{}">> }

\* ", ".join(f'{k}="{v}"' for k, v in dict_args.items())
JoinedArgs(arguments) ==
    IF arguments = <<ArgOpen, ArgClose>> THEN <<"path=\"/tmp\"">> ELSE <<>>

\* f"> @FunctionCall `{name}({joined_args})` \n\n" (the backquotes are left out
\* of the tokens)
CallLine(name, arguments) ==
    <<"> ", Marker, " ", name, "(">> \o JoinedArgs(arguments) \o <<") \n\n">>

\* function.functions: the tools loaded from the functions folder
Registry == { ShellTool, PythonTool }

DISABLED_FUNCTIONS == { PythonTool, "tavily_search" }
ENABLED_FUNCTIONS ==
    { ShellTool, "web_search", "read_file_contents", "apply_file_changes",
      "self_reflect", "call_sgpt" }

\* get_openai_schemas(), by the names of the schemas: the tools the model is
\* told about (DefaultAgent.Config.functions is None, so AgentABC.get_completion
\* passes all of them on)
get_openai_schemas ==
    { f \in Registry :
        /\ f \notin DISABLED_FUNCTIONS
        /\ (ENABLED_FUNCTIONS # {} => f \in ENABLED_FUNCTIONS) }

\* the test as `user_input == "n"`
DeclinedOnlyOnN(user_input) == user_input = <<"n">>

\* `if user_input != "y"`
Declined(user_input) == user_input # <<"y">>

\* the test against the sentence shown to the operator instead
LooksAborted(msgs) ==
    /\ msgs[Len(msgs)].role = "function"
    /\ msgs[Len(msgs)].content = <<"Function call aborted by user.\n">>

\* the test in Handler.complete after handle_function_call returns
LooksDeclined(msgs) ==
    /\ msgs[Len(msgs)].role = "function"
    /\ msgs[Len(msgs)].content = Sentinel

\* every result is turned into text with str()
AgentContentStr(r) == PyStr(r)

\* the structured-output branch of AgentABC.handle_function_call
AgentContent(r) ==
    IF r.kind = "dict"
    THEN IF r.status = "error" THEN r.text
         ELSE IF r.status = "success"
              THEN <<"[File Hash: ">> \o r.file_hash \o <<"]\n\n">> \o r.text
              ELSE <<"Unexpected response structure received.">>
    ELSE PyStr(r)

\* ------------------------------------------------------------------ state
VARIABLES
    cls,                   \* the class driving the turns: "Handler" or "AgentABC"
    length,                \* Cache.length
    dir,                   \* the files of cache_path
    now,                   \* the filesystem clock: the mtime the next write gets
    files,                 \* the sorted listing of the last _delete_oldest_files
    messages,              \* the messages list (conversation_history in AgentABC)
    temperature,           \* the turn's temperature parameter
    caching,               \* the caching argument of the pending get_completion call
    pc,                    \* where the turn's control is
    stack,                 \* the active wrapper frames, outermost first
    name, arguments,       \* the pending tool call of the innermost complete
    nread,                 \* chunks read from the transport so far
    out,                   \* fragments yielded to the caller of the turn
    responses,             \* the turn's transport responses, in request order
    requests,              \* the turn's completion() calls: messages and caching of each
    executed,              \* names of the tools executed in the turn
    user_input,            \* the operator's normalised answer to the last prompt
    declined, rendered, interrupted, hit,  \* what happened in the turn
    error,                 \* the exception that ended the turn, or "none"
    wrote,                 \* for each entry this process stored and still keeps: the
                           \* key, the text the storing call yielded and the
                           \* caching argument of that call
    turns,                 \* turns started
    fetched,               \* the turn's reads of the transport, in order: what the
                           \* caller had received when the read was made, and what
                           \* the read brought
    calls, keys,           \* two get_completion calls and the keys taken for them
    changing_files,        \* FilesView.files: path -> ChangingFile
    observers,             \* FilesView.observers: for each, its notify() calls
    recorded,              \* path -> the contents passed to record_change, in order
    returned,              \* how the last call on the FilesView ended
    ncalls,                \* calls made on the FilesView and its files
    additional_kwargs,     \* the module-level dict of handler.py
    sent,                  \* the completion() calls of Handler.get_completion
    procs,                 \* processes that share cache_path: where each is in
                           \* the tail of its wrapper
    agent_registry,        \* EnhancedREPLKernel.agent_registry: the names in it
    stream                 \* the do_execute calls of the kernel: what each sent
                           \* to the client and which agent it ran

vars == << cls, length, dir, now, files, messages, temperature,
           caching, pc, stack, name, arguments, nread, out, responses,
           requests, executed, user_input, declined, rendered, interrupted, hit,
           error, wrote, turns, fetched, calls, keys, changing_files, observers,
           recorded, returned, ncalls, additional_kwargs, sent, procs,
           agent_registry, stream >>

\* the completion pipeline, the key computation, the file view and the request
\* parameters are looked at separately: a step of one leaves the others alone
pipeline == << cls, length, dir, now, files, messages, temperature,
               caching, pc, stack, name, arguments, nread, out, responses,
               requests, executed, user_input, declined, rendered, interrupted, hit,
               error, wrote, turns, fetched >>
keying   == << calls, keys >>
viewing  == << changing_files, observers, recorded, returned, ncalls >>
requesting == << additional_kwargs, sent >>
racing   == << procs >>
routing  == << agent_registry, stream >>
aside    == << keying, viewing, requesting, racing, routing >>

config  == << cls, length >>
storage == << dir, now, files, wrote >>

\* no get_completion call is being keyed apart from the pipeline's own
NoKeying == calls = <<>> /\ keys = <<>>
\* no FilesView has been constructed
NoView ==
    /\ changing_files = <<>> /\ observers = <<>> /\ recorded = <<>>
    /\ returned = <<>> /\ ncalls = 0

\* a key the dict does not hold
Absent == <<"absent">>
\* `additional_kwargs = {}` once the client is built (with LiteLLM it holds the
\* timeout and the base URL; neither case holds a tool parameter)
NoToolParameters ==
    [tool_choice |-> Absent, tools |-> Absent, parallel_tool_calls |-> Absent]
\* no request parameters are being followed
NoRequesting == additional_kwargs = NoToolParameters /\ sent = <<>>

\* no kernel has been started
NoRouting == agent_registry = {} /\ stream = <<>>

\* no other process is followed
NoRacing == procs = <<>>

\* entries left in cache_path by earlier processes
OldFiles ==
    { File(Fingerprint(0, Handler_make_messages(<<"old1">>), TRUE), <<"a">>, 0),
      File(Fingerprint(0, Handler_make_messages(<<"old2">>), TRUE), <<"a">>, 1) }

\* the pipeline after construction
PipelineInit ==
    /\ cls \in {"Handler", "AgentABC"}
    \* CACHE_LENGTH: nothing is kept, one entry, or the largest capacity
    /\ length \in {0, 1, MaxLength}
    \* cache_path is empty, or holds what earlier processes left
    /\ dir \in { {}, OldFiles }
    /\ now = 1
    /\ files = <<>>
    \* AgentABC.__post_init__ puts the system message into conversation_history
    /\ messages = IF cls = "AgentABC"
                  THEN << Message("system", SystemRole, "", NoCall) >> ELSE <<>>
    /\ temperature = 0
    /\ caching = FALSE
    /\ pc = "idle"
    /\ stack = <<>>
    /\ name = ""
    /\ arguments = <<>>
    /\ nread = 0
    /\ out = <<>>
    /\ responses = <<>>
    /\ requests = <<>>
    /\ executed = <<>>
    /\ user_input = <<>>
    /\ declined = FALSE
    /\ rendered = FALSE
    /\ interrupted = FALSE
    /\ hit = FALSE
    /\ error = "none"
    /\ wrote = {}
    /\ turns = 0
    /\ fetched = <<>>

Init == PipelineInit /\ NoKeying /\ NoView /\ NoRequesting /\ NoRacing /\ NoRouting

\* --------------------------------------------------------------- wrapper
\* `result = i`
WrapperOverwrite(result, i) == i

\* `result += i`
WrapperAccumulate(result, i) == result \o i
\* `yield i`
WrapperYield(i) == i

RECURSIVE AccumulateAll(_, _)
AccumulateAll(result, frags) ==
    IF frags = <<>> THEN result
    ELSE AccumulateAll(WrapperAccumulate(result, Head(frags)), Tail(frags))

\* a wrapper that keeps the fragments to itself until its loop has ended
HeldBack(frags) == <<>>

\* fragments yielded by the innermost generator pass through every enclosing
\* wrapper (`for i in func(...)`) and complete (`yield from`)
Yielded(frags) == [k \in DOMAIN frags |-> WrapperYield(frags[k])]
Through(st, frags) ==
    [k \in DOMAIN st |->
        [st[k] EXCEPT !.computed = @ \o frags,
                      !.result = AccumulateAll(@, frags),
                      !.yielded = @ \o Yielded(frags)]]

\* a wrapper frame on the miss path: its key, its `result` buffer, the fragments
\* func has produced for it and the fragments it has yielded
Frame(key) == [key |-> key, result |-> <<>>, computed |-> <<>>, yielded |-> <<>>]

\* Handler.handle / AgentABC.handle up to the call of get_completion
Handle(prompt, temp, cache_flag) ==
    /\ pc \in {"idle", "done", "raised"}
    /\ turns < MaxTurns
    /\ turns' = turns + 1
    /\ messages' = IF cls = "Handler"
                   THEN Handler_make_messages(Strip(prompt))
                   ELSE Agent_make_messages(messages, Strip(prompt))
    /\ temperature' = temp
    /\ caching' = cache_flag
    /\ pc' = "call"
    /\ stack' = <<>>
    /\ name' = ""
    /\ arguments' = <<>>
    /\ out' = <<>>
    /\ responses' = <<>>
    /\ requests' = <<>>
    /\ executed' = <<>>
    /\ user_input' = <<>>
    /\ declined' = FALSE
    /\ rendered' = FALSE
    /\ interrupted' = FALSE
    /\ hit' = FALSE
    /\ error' = "none"
    /\ fetched' = <<>>
    /\ UNCHANGED << aside, config, storage, nread >>

\* `reply = chunk`: the reply is the last fragment only
HandleReplyLastChunk(msgs, fragments) ==
    IF cls = "AgentABC"
    THEN Append(msgs, Message("assistant",
                              IF fragments = <<>> THEN <<>>
                              ELSE fragments[Len(fragments)], "", NoCall))
    ELSE msgs

\* AgentABC.handle after its loop: the reply is appended to conversation_history
HandleReply(msgs, fragments) ==
    IF cls = "AgentABC"
    THEN Append(msgs, Message("assistant", Flatten(fragments), "", NoCall))
    ELSE msgs

\* the entry that is served gets the time of its use
TouchedOnRead(d, key, t) ==
    {IF f.name = key THEN File(f.name, f.body, t) ELSE f : f \in d}

\* what cache_path holds after the first branch (`yield file.read_text()`,
\* `return`): reading changes neither a body nor a modification time, and the
\* branch returns before the write and before _delete_oldest_files
AfterRead(d, key, t) == d

\* wrapper, first branch: caching is on and the key's file exists
CacheHit ==
    /\ pc = "call"
    /\ LET key == Fingerprint(temperature, messages, caching)
           body == read_text(dir, key)
       IN /\ ServedFromCache(caching, dir, key)
          /\ hit' = TRUE
          /\ out' = out \o Yielded(<<body>>)
          /\ stack' = Through(stack, <<body>>)
          /\ pc' = IF stack = <<>> THEN "done" ELSE "return"
          /\ messages' = IF stack = <<>> THEN HandleReply(messages, out') ELSE messages
          /\ dir' = AfterRead(dir, key, now)
    /\ UNCHANGED << aside, config, now, files, wrote, temperature, caching, name,
                    arguments, nread, responses, requests, executed, user_input,
                    declined, rendered, interrupted, error, turns, fetched >>

\* wrapper, second branch, up to the first read of the stream: func is called,
\* complete opens the transport response
CacheMiss ==
    /\ pc = "call"
    /\ LET key == Fingerprint(temperature, messages, caching)
       IN /\ ~ServedFromCache(caching, dir, key)
          /\ stack' = Append(stack, Frame(key))
    /\ requests' = Append(requests, [messages |-> messages, caching |-> caching])
    /\ responses' = Append(responses, "open")
    /\ name' = ""
    /\ arguments' = <<>>
    /\ pc' = "read"
    /\ UNCHANGED << aside, config, storage, messages, temperature, caching, out, nread,
                    executed, user_input, declined, rendered, interrupted, hit,
                    error, turns, fetched >>

\* ---------------------------------------------------------------- complete
SetLast(seq, v) == [seq EXCEPT ![Len(seq)] = v]

\* the argument fragments of delta.tool_calls, in the order of the list
ArgumentFragments(tcs) == [i \in DOMAIN tcs |-> tcs[i].arguments]

\* one read of the response by `for chunk in response`: how many fragments the
\* caller of the turn had received when it was made, the response it was made
\* on, whether it brought a chunk, and the chunk's text and argument fragments
Fetch(at, response, chunk) ==
    [at |-> at, response |-> response, chunk |-> TRUE,
     yields |-> chunk.finish_reason # "tool_calls",
     fragment |-> ContentOrEmpty(chunk.content),
     arguments |-> ArgumentFragments(chunk.tool_calls)]
\* the read that finds the response exhausted
FetchEnd(at, response) ==
    [at |-> at, response |-> response, chunk |-> FALSE, yields |-> FALSE,
     fragment |-> <<>>, arguments |-> <<>>]

\* the chunk's own text is yielded before the tool invoker runs
OnToolCallsEmit(content) == << ContentOrEmpty(content) >>

\* what complete yields of a chunk whose finish reason is "tool_calls": the
\* branch returns before `yield delta.content or ""` is reached
OnToolCalls(content) == <<>>

\* one iteration of `for chunk in response`
ReadChunk(chunk) ==
    /\ pc = "read"
    /\ nread < MaxChunks
    /\ nread' = nread + 1
    /\ fetched' = Append(fetched, Fetch(Len(out), Len(responses), chunk))
    /\ name' = DecodeName(name, chunk.tool_calls)
    /\ arguments' = DecodeArguments(arguments, chunk.tool_calls)
    /\ IF chunk.finish_reason = "tool_calls"
       THEN /\ Len(stack) < MaxLegs
            /\ pc' = "tool"
            /\ stack' = Through(stack, OnToolCalls(chunk.content))
            /\ out' = out \o Yielded(OnToolCalls(chunk.content))
       ELSE /\ pc' = "read"
            /\ stack' = Through(stack, << ContentOrEmpty(chunk.content) >>)
            /\ out' = out \o Yielded(<< ContentOrEmpty(chunk.content) >>)
    /\ UNCHANGED << aside, config, storage, messages, temperature, caching, responses,
                    requests, executed, user_input, declined, rendered, interrupted,
                    hit, error, turns >>

\* the generator stays suspended once the response is exhausted
AfterStreamEndWait == "wait"

\* the `for` loop is over and complete falls off its end
AfterStreamEnd == "return"

\* the response is exhausted: the loop ends and complete returns
StreamEnd ==
    /\ pc = "read"
    /\ responses' = SetLast(responses, "exhausted")
    /\ fetched' = Append(fetched, FetchEnd(Len(out), Len(responses)))
    /\ pc' = AfterStreamEnd
    /\ UNCHANGED << aside, config, storage, messages, temperature, caching, stack, name,
                    arguments, nread, out, requests, executed, user_input, declined,
                    rendered, interrupted, hit, error, turns >>

\* `except KeyboardInterrupt: pass`
OnKeyboardInterruptLeaveOpen(response) == response

\* `except KeyboardInterrupt: response.close()`
OnKeyboardInterrupt(response) == "closed"

\* the operator interrupts while the loop waits for the next chunk
Interrupt ==
    /\ pc = "read"
    /\ responses' = SetLast(responses, OnKeyboardInterrupt(responses[Len(responses)]))
    /\ interrupted' = TRUE
    /\ pc' = "return"
    /\ UNCHANGED << aside, config, storage, messages, temperature, caching, stack, name,
                    arguments, nread, out, requests, executed, user_input, declined,
                    rendered, hit, error, turns, fetched >>

\* the request is made again
AfterTransportErrorRetry == "call"

\* An exception of the transport is caught nowhere (AgentABC.complete prints it
\* and raises it again): it leaves complete, every wrapper frame and handle, and
\* the turn ends with it
AfterTransportError == "raised"

\* completion(...) raises: the request was made, no response is opened
OpenFails ==
    /\ pc = "call"
    /\ ~ServedFromCache(caching, dir, Fingerprint(temperature, messages, caching))
    /\ requests' = Append(requests, [messages |-> messages, caching |-> caching])
    /\ responses' = Append(responses, "failed")
    /\ name' = ""
    /\ arguments' = <<>>
    /\ error' = "TransportError"
    /\ stack' = <<>>
    /\ pc' = AfterTransportError
    /\ UNCHANGED << aside, config, storage, messages, temperature, caching, out, nread,
                    executed, user_input, declined, rendered, interrupted, hit,
                    turns, fetched >>

\* `for chunk in response` raises while the stream is read
ReadFails ==
    /\ pc = "read"
    /\ responses' = SetLast(responses, "failed")
    /\ error' = "TransportError"
    /\ stack' = <<>>
    /\ pc' = AfterTransportError
    /\ UNCHANGED << aside, config, storage, messages, temperature, caching, name,
                    arguments, nread, out, requests, executed, user_input, declined,
                    rendered, interrupted, hit, turns, fetched >>

\* the wrapper after its loop: write unless the marker is there, then evict;
\* control returns to the enclosing complete, which returns too
WrapperReturn ==
    /\ pc = "return"
    /\ stack # <<>>
    /\ LET top == stack[Len(stack)]
           writes == ~HasMarker(top.result)
       IN   /\ now' = IF writes THEN now + 1 ELSE now
            /\ \E listing \in SortedByMtime(WrapperWrite(dir, top.key, top.result, now)) :
                 /\ files' = listing
                 /\ dir' = DeleteOldestFiles(listing, length)
            /\ wrote' = {w \in (IF writes
                                    THEN {v \in wrote : v.name # top.key}
                                         \cup {[name |-> top.key,
                                                text |-> Flatten(top.yielded),
                                                caching |->
                                                  requests[Len(stack)].caching]}
                                    ELSE wrote) : Exists(dir', w.name)}
    /\ stack' = SubSeq(stack, 1, Len(stack) - 1)
    /\ pc' = IF Len(stack) = 1 THEN "done" ELSE "return"
    /\ messages' = IF Len(stack) = 1 THEN HandleReply(messages, out) ELSE messages
    /\ UNCHANGED << aside, config, temperature, caching, name, arguments, nread, out,
                    responses, requests, executed, user_input, declined, rendered,
                    interrupted, hit, error, turns, fetched >>

\* ------------------------------------------------- handle_function_call
\* What one run of handle_function_call does: the fragments it yields, the
\* messages list it leaves, the exception it raises ("none" if it returns),
\* whether the tool ran, whether the call line was yielded, and the answer read.
Invocation(frags, msgs, err, ran, shown, answer) ==
    [frags |-> frags, messages |-> msgs, error |-> err, ran |-> ran,
     rendered |-> shown, user_input |-> answer]

\* the call recorded with its arguments as they are shown to the operator
CallMessageJoined(n, a) ==
    Message("assistant", <<>>, "", [name |-> n, arguments |-> JoinedArgs(a)])

\* the assistant message that records the call: the name and the raw argument
\* string
CallMessage(n, a) ==
    Message("assistant", <<>>, "", [name |-> n, arguments |-> a])

\* Handler.handle_function_call (interactive); the code fence of the result
\* block is written ~~~ here
Handler_handle_function_call(msgs, n, a, raw, show, outcome) ==
    LET answer == Strip(Lower(raw))    \* typer.prompt("").lower().strip()
        asked  == << <<"\n">>,
                     <<"Are you sure you want to run this function? [y/n]:\n ">>,
                     CallLine(n, a),
                     answer \o <<"\n">> >>
        called == Append(msgs, CallMessage(n, a))
    IN  IF ~ValidJSON(a)
        THEN Invocation(<< <<"\n">> >>, msgs, "JSONDecodeError", FALSE, FALSE, <<>>)
        ELSE IF Declined(answer)
        THEN Invocation(asked \o << <<"Function call aborted by user.\n">> >>,
                        Append(msgs, Message("function", Sentinel, n, NoCall)),
                        "none", FALSE, TRUE, answer)
        ELSE IF n \notin Registry
        THEN Invocation(asked, called, "ValueError", FALSE, TRUE, answer)
        ELSE IF outcome.kind = "raise"
        THEN Invocation(asked, called, "ToolError", TRUE, TRUE, answer)
        ELSE Invocation(
                asked \o (IF show
                          THEN << <<"~~~text\n">> \o PyStr(outcome) \o <<"\n~~~\n">> >>
                          ELSE <<>>),
                Append(called, Message("function", PyStr(outcome), n, NoCall)),
                "none", TRUE, TRUE, answer)

\* AgentABC.handle_function_call (unattended)
Agent_handle_function_call(msgs, n, a, outcome) ==
    LET called == Append(msgs, CallMessage(n, a))
        shown  == << <<"\n">>, CallLine(n, a) >>
    IN  IF ~ValidJSON(a)
        THEN Invocation(<< <<"\n">> >>, called, "JSONDecodeError", FALSE, FALSE, <<>>)
        ELSE IF n \notin Registry
        THEN Invocation(shown, called, "ValueError", FALSE, TRUE, <<>>)
        ELSE IF outcome.kind = "raise"
        THEN Invocation(shown, called, "ToolError", TRUE, TRUE, <<>>)
        ELSE Invocation(
                shown \o << <<"[Function ", n, " executed, output written to named pipe]\n">> >>,
                Append(called, Message("function", AgentContent(outcome), n, NoCall)),
                "none", TRUE, TRUE, <<>>)

\* The branch of complete taken on finish_reason == "tool_calls": run the tool
\* invoker and either stop (an exception, or Handler seeing the decline
\* message last) or call get_completion again with caching=False.
ToolCall(inv, stops) ==
    /\ pc = "tool"
    /\ out' = out \o Yielded(inv.frags)
    /\ messages' = inv.messages
    /\ executed' = IF inv.ran THEN Append(executed, name) ELSE executed
    /\ rendered' = (rendered \/ inv.rendered)
    /\ user_input' = inv.user_input
    /\ error' = inv.error
    /\ IF inv.error # "none"
       THEN /\ pc' = "raised"
            /\ stack' = <<>>
            /\ UNCHANGED caching
       ELSE /\ stack' = Through(stack, inv.frags)
            /\ IF stops
               THEN pc' = "return" /\ UNCHANGED caching
               ELSE pc' = "call" /\ caching' = FALSE
    /\ UNCHANGED << aside, config, storage, temperature, name, arguments, nread, responses,
                    requests, interrupted, hit, turns, fetched >>

\* `show` is cfg.get("SHOW_FUNCTIONS_OUTPUT") == "true", read at each call
HandlerToolCall(raw, show, outcome) ==
    /\ cls = "Handler"
    /\ LET inv == Handler_handle_function_call(messages, name, arguments, raw,
                                               show, outcome)
       IN /\ ToolCall(inv, LooksDeclined(inv.messages))
          /\ declined' = (inv.error = "none" /\ Declined(inv.user_input))

AgentToolCall(outcome) ==
    /\ cls = "AgentABC"
    /\ ToolCall(Agent_handle_function_call(messages, name, arguments, outcome), FALSE)
    /\ UNCHANGED declined

\* ------------------------------------------------------------------- spec
Next ==
    \/ \E p \in Prompts, t \in Temperatures, c \in BOOLEAN : Handle(p, t, c)
    \/ CacheHit
    \/ CacheMiss
    \/ \E chunk \in Chunks : ReadChunk(chunk)
    \/ StreamEnd
    \/ Interrupt
    \/ OpenFails
    \/ ReadFails
    \/ \E raw \in RawAnswers, show \in BOOLEAN, outcome \in ToolOutcomes :
          HandlerToolCall(raw, show, outcome)
    \/ \E outcome \in ToolOutcomes : AgentToolCall(outcome)
    \/ WrapperReturn

Spec == Init /\ [][Next]_vars

\* The steps of a turn under way.  The interpreter runs the generators on
\* whenever it can; that the transport delivers a chunk, ends the stream or
\* fails, that the operator answers the prompt and that the tool returns or
\* raises is what the environment is taken to do in the end.
TurnStep ==
    \/ CacheHit
    \/ CacheMiss
    \/ \E chunk \in Chunks : ReadChunk(chunk)
    \/ StreamEnd
    \/ Interrupt
    \/ OpenFails
    \/ ReadFails
    \/ \E raw \in RawAnswers, show \in BOOLEAN, outcome \in ToolOutcomes :
          HandlerToolCall(raw, show, outcome)
    \/ \E outcome \in ToolOutcomes : AgentToolCall(outcome)
    \/ WrapperReturn

\* a process started on an empty cache directory that keeps one entry
FairInit == Init /\ dir = {} /\ length = 1

\* the pipeline with its turns running to their end
FairSpec == FairInit /\ [][Next]_vars /\ WF_vars(TurnStep)

\* ------------------------------------------------------------ the cache key
\* json.dumps((args[1:], kwargs)) of a get_completion call, written out as the
\* text it produces.  A float is held in tenths (7 stands for 0.7).
RECURSIVE JoinWith(_, _)
\* sep.join(items)
JoinWith(items, sep) ==
    IF items = <<>> THEN <<>>
    ELSE IF Len(items) = 1 THEN Head(items)
    ELSE Head(items) \o sep \o JoinWith(Tail(items), sep)

\* the escapes json.dumps writes inside a string (escapes of characters within
\* a longer token stay within the token)
JsonEscape(c) ==
    IF c = "\"" THEN "\\\""
    ELSE IF c = "\n" THEN "\\n"
    ELSE IF c = "\r" THEN "\\r"
    ELSE c
JsonString(text) == <<"\"">> \o [i \in DOMAIN text |-> JsonEscape(text[i])] \o <<"\"">>

\* a float written without its fraction
JsonFloatTruncated(x) == << ToString(x \div 10) >>

\* float.__repr__
JsonFloat(x) == << ToString(x \div 10), ".", ToString(x % 10) >>
JsonBool(b) == IF b THEN <<"true">> ELSE <<"false">>
JsonList(items) == <<"[">> \o JoinWith(items, <<", ">>) \o <<"]">>

\* a message dict, its keys in the order the code writes them
JsonMessage(m) ==
    <<"{\"role\": ">> \o JsonString(<<m.role>>)
    \o <<", \"content\": ">> \o JsonString(m.content)
    \o (IF m.role = "function"
        THEN <<", \"name\": ">> \o JsonString(<<m.name>>) ELSE <<>>)
    \o (IF m.function_call # NoCall
        THEN <<", \"function_call\": {\"name\": ">>
             \o JsonString(<<m.function_call.name>>)
             \o <<", \"arguments\": ">> \o JsonString(m.function_call.arguments)
             \o <<"}">>
        ELSE <<>>)
    \o <<"}">>

\* one schema of get_openai_schemas(), by the name of its function
JsonSchema(f) ==
    <<"{\"type\": \"function\", \"function\": {\"name\": ">> \o JsonString(<<f>>) \o <<"}}">>

\* `functions` is None or a list of schemas
JsonFunctions(functions) ==
    IF functions = Null THEN <<"null">>
    ELSE JsonList([i \in DOMAIN functions |-> JsonSchema(functions[i])])

\* the keyword arguments in the order every call site passes them
json_dumps(kwargs) ==
    <<"[[], {\"model\": ">> \o JsonString(kwargs.model)
    \o <<", \"temperature\": ">> \o JsonFloat(kwargs.temperature)
    \o <<", \"top_p\": ">> \o JsonFloat(kwargs.top_p)
    \o <<", \"messages\": ">>
    \o JsonList([i \in DOMAIN kwargs.messages |-> JsonMessage(kwargs.messages[i])])
    \o <<", \"functions\": ">> \o JsonFunctions(kwargs.functions)
    \o <<", \"caching\": ">> \o JsonBool(kwargs.caching)
    \o <<"}]">>

\* md5(...).hexdigest(): a digest of the text, taken to be free of collisions
\* on the texts that occur
md5(text) == [hexdigest |-> text]

\* `key = md5(json.dumps((args[1:], kwargs)).encode("utf-8")).hexdigest()`
Key(kwargs) == md5(json_dumps(kwargs))

Models    == { <<"gpt-4o">>, <<"gpt-4o-mini">> }
Floats    == { 0, 7, 10 }
TopPs     == { 5, 10 }
Histories ==
    { Handler_make_messages(<<"List files in /tmp">>),
      Handler_make_messages(<<"List files in /tmp", "\n">>),
      << Message("system", SystemRole, "", NoCall),
         Message("user", <<"List files in /tmp">>, "", NoCall),
         Message("assistant", <<>>, "", [name |-> ShellTool,
                                         arguments |-> <<ArgOpen, ArgClose>>]),
         Message("function", <<"a.txt\nb.txt">>, ShellTool, NoCall) >> }
FunctionLists == { Null, <<ShellTool>>, <<ShellTool, "web_search">> }
Kwargs ==
    [model : Models, temperature : Floats, top_p : TopPs, messages : Histories,
     functions : FunctionLists, caching : BOOLEAN]

\* two get_completion calls reach the wrapper; no turn runs, no file is viewed
KeyInit ==
    /\ PipelineInit /\ cls = "Handler" /\ length = 0 /\ dir = {}
    /\ NoView /\ NoRequesting /\ NoRacing /\ NoRouting
    /\ calls \in Kwargs \X Kwargs
    /\ keys = <<>>

\* the wrapper takes the key of the next call
TakeKey ==
    /\ Len(keys) < Len(calls)
    /\ keys' = Append(keys, Key(calls[Len(keys) + 1]))
    /\ UNCHANGED << pipeline, viewing, requesting, racing, routing, calls >>

KeyNext == TakeKey

KeySpec == KeyInit /\ [][KeyNext]_vars

\* ------------------------------------------------- the request parameters
\* Handler.get_completion on its own: what it passes to completion() through
\* the module-level dict additional_kwargs.  (A call served from the cache does
\* not reach get_completion.)
\* self.role.name, by the member of DefaultRoles it equals
Roles == { "DEFAULT", "SHELL", "CODE", "DESCRIBE_SHELL" }
\* the `functions` argument: None, an empty list, or schemas
FunctionArguments == FunctionLists \cup { <<>> }

\* `if functions:` : None and the empty list are false
Truthy(functions) == functions # Null /\ functions # <<>>

\* lines 115-119: the three roles that never get functions
EffectiveFunctions(role, functions) ==
    IF role \in {"SHELL", "CODE", "DESCRIBE_SHELL"} THEN Null ELSE functions

\* lines 121-124: the dict after the three assignments, or as it was
UpdatedKwargs(kwargs, functions) ==
    IF Truthy(functions)
    THEN [tool_choice |-> <<"auto">>, tools |-> functions,
          parallel_tool_calls |-> <<"False">>]
    ELSE kwargs

\* one completion(...) call: the role and the `functions` argument of the
\* get_completion call that made it, and the tool parameters it carries
Request(role, functions, kwargs) ==
    [role |-> role, functions |-> functions, tool_choice |-> kwargs.tool_choice,
     tools |-> kwargs.tools, parallel_tool_calls |-> kwargs.parallel_tool_calls]

RequestInit ==
    /\ PipelineInit /\ cls = "Handler" /\ length = 0 /\ dir = {}
    /\ NoKeying /\ NoView /\ NoRacing /\ NoRouting
    /\ additional_kwargs = NoToolParameters
    /\ sent = <<>>

\* Handler.get_completion followed by the first step of complete, which calls
\* completion(..., **additional_kwargs)
GetCompletion(role, functions) ==
    /\ Len(sent) < MaxCalls
    /\ additional_kwargs' =
           UpdatedKwargs(additional_kwargs, EffectiveFunctions(role, functions))
    /\ sent' = Append(sent, Request(role, functions, additional_kwargs'))
    /\ UNCHANGED << pipeline, keying, viewing, racing, routing >>

RequestNext == \E role \in Roles, functions \in FunctionArguments :
                   GetCompletion(role, functions)

RequestSpec == RequestInit /\ [][RequestNext]_vars

\* ------------------------------------------- processes sharing cache_path
\* The tail of the wrapper on the miss path, `file.write_text(result)` and
\* `self._delete_oldest_files(self.length)`, run by two processes on one
\* directory.  Each file operation is a step of its own; `dir` is the shared
\* directory and `now` its clock.
Processes == { "p1", "p2" }
\* the keys of the calls the processes make
RaceKeys ==
    { Fingerprint(0, Handler_make_messages(<<"List files in /tmp">>), TRUE),
      Fingerprint(0, Handler_make_messages(<<"Show the date">>), TRUE) }

\* the names a file of the directory can have
FileNames == RaceKeys \cup {f.name : f \in OldFiles}

\* a process about to write: its key, the names its glob returned and has not
\* passed to stat yet, the files stat has answered for, the names it still
\* has to unlink, and the exception that ended it
Proc(key) ==
    [pc |-> "write", key |-> key, globbed |-> {}, stats |-> {}, todo |-> <<>>,
     error |-> "none"]

\* the variables of a turn, which no step of these processes touches
session == << messages, temperature, caching, pc, stack, name, arguments, nread,
              out, responses, requests, executed, user_input, declined, rendered,
              interrupted, hit, error, turns, fetched >>

RaceInit ==
    /\ PipelineInit /\ cls = "Handler"
    /\ NoKeying /\ NoView /\ NoRequesting /\ NoRouting
    /\ procs \in [Processes -> {Proc(key) : key \in RaceKeys}]

\* `file.write_text(result)` (the text holds no marker)
Write(p) ==
    /\ procs[p].pc = "write"
    /\ dir' = write_text(dir, procs[p].key, <<"a">>, now)
    /\ now' = now + 1
    /\ procs' = [procs EXCEPT ![p].pc = "glob"]
    /\ UNCHANGED << config, files, wrote, session, keying, viewing, requesting, routing >>

\* `self.cache_path.glob("*")`: the names in the directory when it is scanned
Glob(p) ==
    /\ procs[p].pc = "glob"
    /\ procs' = [procs EXCEPT ![p].pc = "stat",
                              ![p].globbed = {f.name : f \in dir}]
    /\ UNCHANGED << pipeline, keying, viewing, requesting, routing >>

\* `f.stat().st_mtime` on one of the names, as sorted() works through them:
\* the file as it is now, or FileNotFoundError if it is gone
Stat(p, file_name) ==
    /\ procs[p].pc = "stat"
    /\ file_name \in procs[p].globbed
    /\ procs' =
          IF Exists(dir, file_name)
          THEN [procs EXCEPT
                  ![p].globbed = @ \ {file_name},
                  ![p].stats = @ \cup {f \in dir : f.name = file_name}]
          ELSE [procs EXCEPT ![p].pc = "failed",
                             ![p].error = "FileNotFoundError"]
    /\ UNCHANGED << pipeline, keying, viewing, requesting, routing >>

\* the names to unlink: the first num_files_to_delete of the sorted list
ToUnlink(listing, max_files) ==
    [i \in 1..NumFilesToDelete(listing, max_files) |-> listing[i].name]

\* sorted() returns and `if len(files) > max_files` is evaluated
Sorted(p) ==
    /\ procs[p].pc = "stat"
    /\ procs[p].globbed = {}
    /\ \E listing \in SortedByMtime(procs[p].stats) :
          procs' = [procs EXCEPT
                      ![p].todo = ToUnlink(listing, length),
                      ![p].pc = IF ToUnlink(listing, length) = <<>>
                                THEN "done" ELSE "unlink"]
    /\ UNCHANGED << pipeline, keying, viewing, requesting, routing >>

\* `files[i].unlink()`: FileNotFoundError if the file is gone
Unlink(p) ==
    /\ procs[p].pc = "unlink"
    /\ IF Exists(dir, Head(procs[p].todo))
       THEN /\ dir' = {f \in dir : f.name # Head(procs[p].todo)}
            /\ procs' = [procs EXCEPT
                           ![p].todo = Tail(@),
                           ![p].pc = IF Tail(procs[p].todo) = <<>>
                                     THEN "done" ELSE "unlink"]
       ELSE /\ dir' = dir
            /\ procs' = [procs EXCEPT ![p].pc = "failed",
                                      ![p].error = "FileNotFoundError"]
    /\ UNCHANGED << config, now, files, wrote, session, keying, viewing, requesting, routing >>

RaceNext ==
    \E p \in Processes :
        \/ Write(p)
        \/ Glob(p)
        \/ \E file_name \in FileNames : Stat(p, file_name)
        \/ Sorted(p)
        \/ Unlink(p)

RaceSpec == RaceInit /\ [][RaceNext]_vars

\* ------------------------------------------------------------ the kernel
\* EnhancedREPLKernel: do_execute and route_to_agent.  The text of a cell is a
\* Text whose tokens are single characters, so that it can be split.
DefaultAgentName == <<"D", "e", "f", "a", "u", "l", "t", "A", "g", "e", "n", "t">>
\* the names under which agents get registered
AgentNames == { <<"e", "d">>, <<"q", "a">> }
\* what is typed into a cell
Codes ==
    { <<"h", "i">>,
      <<"h", "i", " ", "@", "e", "d">>,
      <<"@", "e", "d", " ", "h", "i">>,
      <<"@", "e", "d", " ", "h", "i", " ", "y", "o", "u">>,
      <<"@", "e", "d">>,
      <<"@", "q", "a", " ", "h", "i">>,
      <<"@", "x", " ", "h", "i">>,
      <<"@">> }

\* code.startswith("@")
StartsWithAt(code) == code # <<>> /\ Head(code) = "@"

\* the position of the first space, 0 if there is none
FirstSpace(code) ==
    IF \E i \in DOMAIN code : code[i] = " "
    THEN CHOOSE i \in DOMAIN code :
             code[i] = " " /\ \A j \in 1..(i - 1) : code[j] # " "
    ELSE 0

\* code.split(" ", 1)
SplitOnce(code, at) ==
    IF at = 0 THEN << code >>
    ELSE << SubSeq(code, 1, at - 1), SubSeq(code, at + 1, Len(code)) >>

\* `agent_name = parts[0][1:]`
AgentNameOf(parts) == Tail(parts[1])
\* `message = parts[1] if len(parts) > 1 else ""`
MessageOf(parts) == IF Len(parts) > 1 THEN parts[2] ELSE <<>>

\* the fragments agent.handle(message) yields when it is iterated: here a
\* line naming the agent and the message back
AgentReply(agent_name, message) ==
    << <<"[">> \o agent_name \o <<"]">>, message >>

\* What iterating route_to_agent produces is written as a record: the
\* fragments it yields and the handle() generators it runs on the way.

\* `return agent.handle(message)` inside route_to_agent, which is a generator
\* function because of the yields below it: the returned generator object
\* becomes the value of StopIteration, nothing is yielded and handle's body is
\* never run
ReturnInGenerator(agent_name, message) == [fragments |-> <<>>, ran |-> <<>>]

\* `yield f"Agent '{agent_name}' not found."`
NotFound(agent_name) == << <<"Agent '">> \o agent_name \o <<"' not found.">> >>

\* `yield from agent.handle(message)`
YieldFrom(agent_name, message) ==
    [fragments |-> AgentReply(agent_name, message),
     ran |-> << [agent |-> agent_name, message |-> message] >>]

\* route_to_agent(code), iterated to its end
route_to_agent(registry, code) ==
    LET parts == SplitOnce(code, FirstSpace(code))
    IN  IF StartsWithAt(code)
        THEN IF AgentNameOf(parts) \in registry
             THEN ReturnInGenerator(AgentNameOf(parts), MessageOf(parts))
             ELSE [fragments |-> NotFound(AgentNameOf(parts)), ran |-> <<>>]
        ELSE YieldFrom(DefaultAgentName, code)

KernelInit ==
    /\ PipelineInit /\ cls = "AgentABC" /\ length = 0 /\ dir = {}
    /\ NoKeying /\ NoView /\ NoRequesting /\ NoRacing
    /\ agent_registry = {}
    /\ stream = <<>>

\* register_agent(name, agent)
RegisterAgent(agent_name) ==
    /\ agent_registry' = agent_registry \cup {agent_name}
    /\ UNCHANGED << pipeline, keying, viewing, requesting, racing, stream >>

\* one do_execute call: the cell, whether its agent was registered, the text of
\* the stream messages sent, and the handle() calls that ran
Executed(registry, code, silent, routed) ==
    [code |-> code, silent |-> silent, registry |-> registry,
     text |-> IF silent THEN <<>> ELSE routed.fragments,
     ran |-> IF silent THEN <<>> ELSE routed.ran]

\* do_execute(code, silent)
DoExecute(code, silent) ==
    /\ Len(stream) < MaxCalls
    /\ stream' = Append(stream, Executed(agent_registry, code, silent,
                                         route_to_agent(agent_registry, code)))
    /\ UNCHANGED << pipeline, keying, viewing, requesting, racing, agent_registry >>

KernelNext ==
    \/ \E agent_name \in AgentNames : RegisterAgent(agent_name)
    \/ \E code \in Codes, silent \in BOOLEAN : DoExecute(code, silent)

KernelSpec == KernelInit /\ [][KernelNext]_vars

\* ------------------------------------------------------------ file versions
\* A file's content is a list of lines; a line is a Text whose tokens are single
\* characters, so that a prefix of a line can be cut off.
LineA        == <<"a", "\n">>
LineB        == <<"b", "\n">>
LineIndented == <<" ", "a", "\n">>
Contents ==
    { <<>>, <<LineA, LineB>>, <<LineB, LineA>>, <<LineIndented, LineB>> }
\* what the tracked files hold when the FilesView is constructed
OriginalContents == { <<LineA, LineB>>, <<LineIndented, LineB>> }

\* difflib.SequenceMatcher(None, a, b) without junk.  Positions are 0-based as
\* in Python: a[i] of the code is a[i + 1] here.
RECURSIVE RunLength(_, _, _, _, _, _)
\* the number of equal lines from a[i], b[j] on, within a[:ahi], b[:bhi]
RunLength(a, b, i, j, ahi, bhi) ==
    IF i < ahi /\ j < bhi /\ a[i + 1] = b[j + 1]
    THEN 1 + RunLength(a, b, i + 1, j + 1, ahi, bhi)
    ELSE 0

\* find_longest_match: the longest block a[i:i+k] == b[j:j+k], of those the one
\* that starts earliest in a, of those the one that starts earliest in b
\* (size[c] is the length of the block that starts at c = (i, j))
Earliest(longest, size) ==
    LET c == CHOOSE c \in longest :
                \A d \in longest : c[1] < d[1] \/ (c[1] = d[1] /\ c[2] <= d[2])
    IN <<c[1], c[2], size[c]>>
LongestOf(size, alo, blo) ==
    IF \A c \in DOMAIN size : size[c] = 0 THEN <<alo, blo, 0>>
    ELSE Earliest({c \in DOMAIN size : \A d \in DOMAIN size : size[d] <= size[c]}, size)
find_longest_match(a, b, alo, ahi, blo, bhi) ==
    LongestOf([c \in (alo..(ahi - 1)) \X (blo..(bhi - 1)) |->
                  RunLength(a, b, c[1], c[2], ahi, bhi)], alo, blo)

RECURSIVE get_matching_blocks(_, _, _, _, _, _)
RECURSIVE BlocksAround(_, _, _, _, _, _, _)
\* the matching blocks in increasing order, without the closing (la, lb, 0); two
\* blocks are never adjacent, since each is a longest match of its range
get_matching_blocks(a, b, alo, ahi, blo, bhi) ==
    BlocksAround(a, b, alo, ahi, blo, bhi, find_longest_match(a, b, alo, ahi, blo, bhi))
\* the blocks left of the match m, m itself, the blocks right of it
BlocksAround(a, b, alo, ahi, blo, bhi, m) ==
    IF m[3] = 0 THEN <<>>
    ELSE get_matching_blocks(a, b, alo, m[1], blo, m[2])
         \o <<m>>
         \o get_matching_blocks(a, b, m[1] + m[3], ahi, m[2] + m[3], bhi)

Opcode(tag, i1, i2, j1, j2) == [tag |-> tag, i1 |-> i1, i2 |-> i2, j1 |-> j1, j2 |-> j2]

RECURSIVE OpcodesFrom(_, _, _)
\* the loop of get_opcodes over the matching blocks, from position (i, j)
OpcodesFrom(blocks, i, j) ==
    IF blocks = <<>> THEN <<>>
    ELSE LET ai == Head(blocks)[1]
             bj == Head(blocks)[2]
             size == Head(blocks)[3]
             tag == IF i < ai /\ j < bj THEN "replace"
                    ELSE IF i < ai THEN "delete"
                    ELSE IF j < bj THEN "insert"
                    ELSE ""
         IN (IF tag # "" THEN << Opcode(tag, i, ai, j, bj) >> ELSE <<>>)
            \o (IF size > 0
                THEN << Opcode("equal", ai, ai + size, bj, bj + size) >> ELSE <<>>)
            \o OpcodesFrom(Tail(blocks), ai + size, bj + size)

get_opcodes(a, b) ==
    OpcodesFrom(get_matching_blocks(a, b, 0, Len(a), 0, Len(b))
                    \o << <<Len(a), Len(b), 0>> >>, 0, 0)

\* the lines of context unified_diff keeps around a change (its default n)
Context == 3

Max(x, y) == IF x >= y THEN x ELSE y
Min(x, y) == IF x <= y THEN x ELSE y

\* get_grouped_opcodes(n): the leading and the trailing run of equal lines are
\* cut to n lines; no group is yielded when nothing differs.  A group is split
\* only at a run of more than 2n equal lines, longer than any content here, so
\* there is at most one group.
Grouped(codes) ==
    LET first(c) == IF c.tag = "equal"
                    THEN Opcode("equal", Max(c.i1, c.i2 - Context), c.i2,
                                         Max(c.j1, c.j2 - Context), c.j2)
                    ELSE c
        last(c)  == IF c.tag = "equal"
                    THEN Opcode("equal", c.i1, Min(c.i2, c.i1 + Context),
                                         c.j1, Min(c.j2, c.j1 + Context))
                    ELSE c
        cut == [k \in DOMAIN codes |->
                   IF k = 1 THEN first(codes[k])
                   ELSE IF k = Len(codes) THEN last(codes[k])
                   ELSE codes[k]]
    IN  IF \A k \in DOMAIN codes : codes[k].tag = "equal" THEN <<>> ELSE << cut >>
get_grouped_opcodes(a, b) == Grouped(get_opcodes(a, b))

\* _format_range_unified(start, stop)
FormatRange(start, stop) ==
    IF stop - start = 1 THEN << ToString(start + 1) >>
    ELSE << ToString(IF stop = start THEN start ELSE start + 1), ",",
            ToString(stop - start) >>

\* a[lo:hi], each line behind the prefix
Prefixed(prefix, a, lo, hi) == [k \in 1..(hi - lo) |-> <<prefix>> \o a[lo + k]]

RECURSIVE HunkLines(_, _, _)
HunkLines(codes, a, b) ==
    IF codes = <<>> THEN <<>>
    ELSE LET c == Head(codes)
         IN (IF c.tag = "equal" THEN Prefixed(" ", a, c.i1, c.i2)
             ELSE (IF c.tag \in {"replace", "delete"}
                   THEN Prefixed("-", a, c.i1, c.i2) ELSE <<>>)
                  \o (IF c.tag \in {"replace", "insert"}
                      THEN Prefixed("+", b, c.j1, c.j2) ELSE <<>>))
            \o HunkLines(Tail(codes), a, b)

\* list(difflib.unified_diff(a, b, lineterm="")): the two file lines, then the
\* hunk's range line and its lines
Hunk(group, a, b) ==
    << <<"-", "-", "-", " ">>, <<"+", "+", "+", " ">>,
       <<"@", "@", " ", "-">> \o FormatRange(group[1].i1, group[Len(group)].i2)
           \o <<" ", "+">> \o FormatRange(group[1].j1, group[Len(group)].j2)
           \o <<" ", "@", "@">> >>
    \o HunkLines(group, a, b)
DiffLines(groups, a, b) == IF groups = <<>> THEN <<>> ELSE Hunk(groups[1], a, b)
unified_diff(a, b) == DiffLines(get_grouped_opcodes(a, b), a, b)

RECURSIVE restore(_, _)
\* list(difflib.restore(delta, which)): the lines that start with two spaces or
\* with the tag of `which` ("- " for 1, "+ " for 2), without these two characters
restore(delta, which) ==
    LET tag == IF which = 1 THEN <<"-", " ">> ELSE <<"+", " ">>
    IN  IF delta = <<>> THEN <<>>
        ELSE (IF Len(Head(delta)) >= 2
                  /\ SubSeq(Head(delta), 1, 2) \in { <<" ", " ">>, tag }
              THEN << SubSeq(Head(delta), 3, Len(Head(delta))) >>
              ELSE <<>>)
             \o restore(Tail(delta), which)

\* ChangingFile.apply_diff
apply_diff(original, diff) == restore(diff, 1)

\* a ChangingFile after __post_init__; _cache is the set of its entries
ChangingFile(file_path, content) ==
    [file_path |-> file_path, original_content |-> content, changes |-> <<>>,
     cache |-> {}]

RECURSIVE ApplyAll(_, _)
\* `for change in self.changes[:version]: content = self.apply_diff(content, change)`
ApplyAll(content, changes) ==
    IF changes = <<>> THEN content
    ELSE ApplyAll(apply_diff(content, Head(changes)), Tail(changes))

\* ChangingFile.get_version: what it returns and the file it leaves
Memoized(f, version, content) ==
    [content |-> content,
     file |-> [f EXCEPT !.cache = @ \cup {[version |-> version, content |-> content]}]]
get_version(f, version) ==
    IF \E e \in f.cache : e.version = version
    THEN [content |-> (CHOOSE e \in f.cache : e.version = version).content, file |-> f]
    ELSE Memoized(f, version,
                  ApplyAll(f.original_content,
                           SubSeq(f.changes, 1, Min(version, Len(f.changes)))))

\* ChangingFile.get_current_version
get_current_version(f) == get_version(f, Len(f.changes))

\* ChangingFile.record_change
\* (current is what get_current_version returned and the file it left)
AppendDiff(current, new_content) ==
    [current.file EXCEPT !.changes = Append(@, unified_diff(current.content, new_content))]
record_change(f, new_content) == AppendDiff(get_current_version(f), new_content)

TrackedPaths == { "file1.txt", "file2.txt" }
Paths        == TrackedPaths \cup { "other.txt" }

\* how the last call on the view ended: the exception it raised, if any
NoResult == [raised |-> "none"]

\* FilesView(file_paths) after __post_init__, no observer registered
ViewInit ==
    /\ PipelineInit /\ cls = "Handler" /\ length = 0 /\ dir = {}
    /\ NoKeying /\ NoRequesting /\ NoRacing /\ NoRouting
    /\ changing_files \in
          { [path \in TrackedPaths |-> ChangingFile(path, content[path])] :
                content \in [TrackedPaths -> OriginalContents] }
    /\ observers = <<>>
    /\ recorded = [path \in TrackedPaths |-> <<>>]
    /\ returned = NoResult
    /\ ncalls = 0

\* only the first watcher is notified
notify_first(obs) == [i \in DOMAIN obs |-> IF i = 1 THEN obs[i] + 1 ELSE obs[i]]

\* FilesView.notify_observers: each watcher's notify() is called once
notify_observers(obs) == [i \in DOMAIN obs |-> obs[i] + 1]

\* FilesView.register_observer
RegisterObserver ==
    /\ ncalls < MaxCalls
    /\ ncalls' = ncalls + 1
    /\ observers' = Append(observers, 0)
    /\ returned' = NoResult
    /\ UNCHANGED << pipeline, keying, requesting, racing, routing, changing_files, recorded >>

\* every path is taken as tracked
InFilesOrNot(tracked, file_path) == TRUE

\* `if file_path in self.files`
InFiles(tracked, file_path) == file_path \in tracked

\* FilesView.record_change(file_path, new_content)
RecordChange(file_path, new_content) ==
    /\ ncalls < MaxCalls
    /\ ncalls' = ncalls + 1
    /\ IF InFiles(DOMAIN changing_files, file_path)
       THEN /\ changing_files' =
                  [changing_files EXCEPT
                      ![file_path] = record_change(@, new_content)]
            /\ observers' = notify_observers(observers)
            /\ recorded' = [recorded EXCEPT ![file_path] = Append(@, new_content)]
            /\ returned' = NoResult
       ELSE /\ returned' = [raised |-> "ValueError"]
            /\ UNCHANGED << changing_files, observers, recorded >>
    /\ UNCHANGED << pipeline, keying, requesting, racing, routing >>

\* files[file_path].get_version(version) on a tracked file: the call may store
\* its result in the file's _cache
GetVersion(file_path, version) ==
    /\ ncalls < MaxCalls
    /\ ncalls' = ncalls + 1
    /\ file_path \in DOMAIN changing_files
    /\ changing_files' =
          [changing_files EXCEPT ![file_path] = get_version(@, version).file]
    /\ returned' = NoResult
    /\ UNCHANGED << pipeline, keying, requesting, racing, routing, observers, recorded >>

ViewNext ==
    \/ RegisterObserver
    \/ \E file_path \in Paths, new_content \in Contents :
          RecordChange(file_path, new_content)
    \/ \E file_path \in TrackedPaths, version \in 0..MaxCalls :
          GetVersion(file_path, version)

ViewSpec == ViewInit /\ [][ViewNext]_vars

\* ---------------------------------------------------------------- claims
Last(seq) == seq[Len(seq)]
\* the fingerprint of the turn's first request, from the logged completion() call
TurnKey == Fingerprint(temperature, requests[1].messages, requests[1].caching)
\* the fingerprint a cache hit was served from (AgentABC.handle has appended
\* the reply to the history by then)
HitKey ==
    Fingerprint(temperature,
                IF cls = "AgentABC" THEN SubSeq(messages, 1, Len(messages) - 1)
                ELSE messages,
                TRUE)

\* C1: in Handler a tool is executed only if the operator's answer, lower-cased
\* and stripped, is exactly "y"; after any other answer no tool runs.
C1_ExecutedOnlyOnY ==
    [][(cls = "Handler" /\ Len(executed') > Len(executed)) => user_input' = <<"y">>]_vars
C1_Witness ==
    cls = "Handler" /\ executed # <<>> /\ user_input = <<"y">> /\ error = "none"

\* C2: after a decline the last message is the function-role decline message,
\* the turn goes on to its normal end without an exception, and no further
\* completion request is issued in it.
C2_DeclineEndsTurn ==
    /\ [](declined => /\ Last(messages).role = "function"
                      /\ Last(messages).content = Sentinel
                      /\ error = "none"
                      /\ pc \in {"return", "done"})
    /\ [][(declined /\ declined') => requests' = requests]_vars
C2_Witness ==
    declined /\ pc = "done" /\ Len(requests) = 1 /\ user_input = <<"y", "e", "s">>

\* C3: whenever a tool is executed and returns, a function-role message is
\* appended and a continuation request with caching=False follows.
C3_ContinuationAfterTool ==
    [][(Len(executed') > Len(executed) /\ error' = "none")
          => /\ Last(messages').role = "function"
             /\ pc' = "call"
             /\ caching' = FALSE]_vars

\* C4: a cache hit yields exactly one chunk, calls the transport never, and the
\* chunk equals the text the storing call yielded.
C4_HitReturnsStoredText ==
    hit => /\ Len(out) = 1
           /\ requests = <<>>
           /\ \A w \in wrote : w.name = HitKey => out[1] = w.text

\* C5: no entry whose body holds the marker is ever written, although the caller
\* received every fragment of such a body; a turn that rendered a tool call
\* writes no entry under the fingerprint of its first request.
C5_NoMarkerPersisted ==
    [][ /\ \A f \in dir' \ dir :
              /\ Marker \notin Range(f.body)
              /\ (rendered /\ requests # <<>>) => f.name # TurnKey
        /\ (pc = "return" /\ Len(stack) = 1 /\ Marker \in Range(stack[1].result))
              => (Flatten(out) = stack[1].result /\ ~Exists(dir' \ dir, stack[1].key))
      ]_vars
C5_Witness ==
    /\ pc = "done" /\ rendered /\ requests[1].caching
    /\ Marker \in Range(Flatten(out))
    /\ Len(requests) = 2
    /\ ~Exists(dir, TurnKey)
    /\ dir # {}

\* C6: on a miss with caching on, the wrapper yields what the wrapped function
\* produces, unchanged and in order, and at exhaustion without the marker the
\* entry written under the request's fingerprint is the concatenation of the
\* fragments the caller received.
C6_MissStreamsAndStores ==
    /\ [](\A k \in DOMAIN stack : stack[k].yielded = stack[k].computed)
    /\ [](stack # <<>> => out = stack[1].yielded)
    /\ [][(pc = "return" /\ Len(stack) = 1 /\ requests[1].caching /\ ~interrupted
              /\ Marker \notin Range(Flatten(out)))
            => \E f \in Range(files') : f.name = TurnKey /\ f.body = Flatten(out)]_vars
C6_Witness ==
    /\ pc = "done" /\ ~hit /\ ~interrupted /\ requests[1].caching
    /\ Len(out) = 2 /\ out[1] # <<>> /\ out[2] # <<>>
    /\ \E f \in dir : f.name = TurnKey /\ f.body = Flatten(out)

\* C7: a turn interrupted while its stream is read writes no cache entry.
C7_InterruptWritesNothing ==
    [][interrupted => dir' \subseteq dir]_vars

\* C8: after an interrupt during reading, the response being read is closed, the
\* turn produces no further fragment and issues no further request, and it ends
\* without an exception.
C8_InterruptClosesAndStops ==
    /\ [](interrupted => /\ Last(responses) = "closed"
                         /\ error = "none"
                         /\ pc \in {"return", "done"})
    /\ [][(interrupted /\ interrupted') => (out' = out /\ requests' = requests)]_vars
C8_Witness ==
    interrupted /\ pc = "done" /\ out # <<>> /\ Len(responses) = 2

\* C9: when a cache-miss call of the wrapper has run to its end, the directory
\* holds at most `length` files, whatever it held before.
C9_EvictionBound ==
    [][pc = "return" => Cardinality(dir') <= length]_vars
C9_Witness ==
    pc = "done" /\ ~hit /\ length > 0 /\ Len(files) > length /\ Cardinality(dir) = length

\* C10: eviction removes exactly max(0, count - capacity) of the listed files,
\* and no removed file is newer than a file that is kept.
C10_EvictsOldest ==
    [][pc = "return" =>
          LET removed == Range(files') \ dir'
          IN /\ dir' \subseteq Range(files')
             /\ dir \subseteq {f \in dir : f.name = Last(stack).key} \cup Range(files')
             /\ Cardinality(removed) =
                   IF Len(files') > length THEN Len(files') - length ELSE 0
             /\ \A r \in removed, k \in dir' : r.mtime <= k.mtime]_vars
C10_Witness ==
    /\ pc = "done" /\ ~hit
    /\ \E r \in Range(files) \ dir, k \in dir : r.mtime < k.mtime
    /\ \E r \in Range(files) \ dir, k \in dir : r.mtime = k.mtime

\* C11: streaming is lazy: when the transport is read again, the fragment that
\* the previous chunk produced has already reached the caller of the turn (it is
\* the next entry of `out` after those the caller had when that chunk was read).
C11_LazyStreaming ==
    \A k \in 1..(Len(fetched) - 1) :
        fetched[k].yields =>
            /\ fetched[k + 1].at > fetched[k].at
            /\ out[fetched[k].at + 1] = fetched[k].fragment
C11_Witness ==
    /\ requests # <<>> /\ requests[1].caching /\ stack # <<>>
    /\ Len(fetched) = 2
    /\ fetched[1].yields /\ fetched[1].fragment = <<"a", "\r">>
    /\ fetched[2].yields /\ fetched[2].fragment = <<Marker>>

\* C12: when a turn of AgentABC.handle ends with its last response exhausted,
\* the history is the history the last request was made with plus exactly one
\* message: an assistant message whose content is the concatenation of all the
\* fragments the caller received in the turn.
C12_ReplyAppended ==
    (cls = "AgentABC" /\ pc = "done" /\ requests # <<>>
        /\ Last(responses) = "exhausted")
    => /\ Len(messages) = Len(Last(requests).messages) + 1
       /\ SubSeq(messages, 1, Len(messages) - 1) = Last(requests).messages
       /\ Last(messages).role = "assistant"
       /\ Last(messages).function_call = NoCall
       /\ Last(messages).content = Flatten(out)
C12_Witness ==
    /\ cls = "AgentABC" /\ pc = "done" /\ Len(requests) = 1
    /\ Last(responses) = "exhausted" /\ Len(out) = 2
    /\ Last(messages).content = <<"a", "\r">>
    /\ Cardinality({i \in DOMAIN messages : messages[i].role = "assistant"}) = 1

\* C13: when the accumulated arguments are not valid JSON, the invoker's step
\* ends the turn with the parse error, runs no tool, appends no function-role
\* message and issues no request; after it only a new turn can start.
C13_BadArgumentsAbort ==
    [][ /\ (pc = "tool" /\ arguments \notin { <<ArgOpen, ArgClose>>, <<"{}">> })
            => /\ error' = "JSONDecodeError"
               /\ pc' = "raised"
               /\ executed' = executed
               /\ requests' = requests
               /\ \A i \in (Len(messages) + 1)..Len(messages') :
                     messages'[i].role # "function"
        /\ error = "JSONDecodeError" => turns' = turns + 1
      ]_vars
C13_Witness ==
    /\ error = "JSONDecodeError" /\ pc = "raised" /\ arguments = <<ArgClose, ArgOpen>>
    /\ executed = <<>> /\ Len(requests) = 1 /\ out = << <<>>, <<"\n">> >>

\* the structured result of a tool that reports failure
ErrorResult == DictResult("error", <<"boom">>, <<>>)

\* C14: in AgentABC, when the executed tool returns a structured result with
\* status "error", the invoker's step raises nothing, leaves a function-role
\* message with the error message as the last message, and goes on to a
\* get_completion call with caching off; that call is never served from the
\* cache, so it is a completion request.
C14_ToolFailureContinues ==
    [][ /\ (cls = "AgentABC" /\ pc = "tool"
             /\ messages' = Agent_handle_function_call(messages, name, arguments,
                                                        ErrorResult).messages
             /\ Len(messages') = Len(messages) + 2)
            => /\ error' = "none"
               /\ Last(executed') = name
               /\ Last(messages') = Message("function", <<"boom">>, name, NoCall)
               /\ pc' = "call"
               /\ caching' = FALSE
        /\ (pc = "call" /\ stack # <<>>)
            => /\ ~caching
               /\ Len(requests') = Len(requests) + 1
               /\ Last(requests').messages = messages
      ]_vars
C14_Witness ==
    /\ cls = "AgentABC" /\ Len(requests) = 2 /\ executed = <<ShellTool>>
    /\ Last(Last(requests).messages) = Message("function", <<"boom">>, ShellTool, NoCall)
    /\ Last(responses) = "open"

\* C15: a failure of the transport, at the opening of a response or at a read
\* of it, ends the turn with the error in that step; the step writes no cache
\* entry, and after it only a new turn can start: no request is made again.
C15_TransportErrorPropagates ==
    [][ /\ (error' = "TransportError" /\ error # "TransportError")
            => /\ pc' = "raised"
               /\ stack' = <<>>
               /\ dir' = dir
               /\ messages' = messages
               /\ Len(requests') <= Len(requests) + 1
        /\ error = "TransportError" => (turns' = turns + 1 /\ requests' = <<>>)
      ]_vars
C15_Witness ==
    /\ error = "TransportError" /\ pc = "raised" /\ Last(responses) = "failed"
    /\ out = << <<"a", "\r">> >> /\ requests[1].caching /\ ~Exists(dir, TurnKey)

\* C16: the history only grows: in every step of an AgentABC session, and in
\* every step within a turn of Handler (whose list lives for one turn), the
\* messages before the step are a prefix of the messages after it.
C16_HistoryAppendOnly ==
    [][(cls = "AgentABC" \/ turns' = turns)
          => /\ Len(messages') >= Len(messages)
             /\ SubSeq(messages', 1, Len(messages)) = messages]_vars
C16_Witness ==
    /\ cls = "AgentABC" /\ turns = 2 /\ error = "TransportError"
    /\ Len(messages) = 6
    /\ messages[3].function_call.name = ShellTool
    /\ messages[4].role = "function"
    /\ messages[5].role = "assistant"
    /\ messages[6].role = "user"

\* C17: the keys of two calls are equal if the calls have the same keyword
\* arguments, and different if the calls differ in the model, the temperature,
\* top_p, the messages or the functions.
C17_KeyDiscriminates ==
    Len(keys) = 2 =>
        /\ calls[1] = calls[2] => keys[1] = keys[2]
        /\ (\/ calls[1].model # calls[2].model
            \/ calls[1].temperature # calls[2].temperature
            \/ calls[1].top_p # calls[2].top_p
            \/ calls[1].messages # calls[2].messages
            \/ calls[1].functions # calls[2].functions) => keys[1] # keys[2]
C17_Witness ==
    /\ Len(keys) = 2 /\ keys[1] # keys[2]
    /\ calls[1].temperature = 0 /\ calls[2].temperature = 7
    /\ calls[2] = [calls[1] EXCEPT !.temperature = 7]

RECURSIVE ReceivedArguments(_, _)
\* the argument fragments the reads of one response brought, joined in the
\* order of the reads
ReceivedArguments(log, response) ==
    IF log = <<>> THEN <<>>
    ELSE (IF Head(log).response = response THEN Flatten(Head(log).arguments) ELSE <<>>)
         \o ReceivedArguments(Tail(log), response)

\* C18: when the finish reason "tool_calls" has been seen, the argument string
\* that goes to the tool invoker is the concatenation, in chunk order, of the
\* argument fragments received in that response.
C18_ArgumentsInArrivalOrder ==
    pc = "tool" => arguments = ReceivedArguments(fetched, Len(responses))
C18_Witness ==
    /\ pc = "tool" /\ Len(fetched) = 2
    /\ fetched[1].arguments = << <<ArgClose>> >>
    /\ fetched[2].arguments = << <<ArgOpen>> >>
    /\ arguments = <<ArgClose, ArgOpen>>

\* C19: on every tracked file, get_version(0) returns the original content and
\* get_version(k) returns the k-th recorded content for every k up to the number
\* of recorded changes (so the current version is the last recorded content),
\* and apply_diff(original, changes[0]) returns the first recorded content.
C19_VersionsRestored ==
    \A path \in TrackedPaths :
        LET f == changing_files[path]
        IN  /\ get_version(f, 0).content = f.original_content
            /\ \A k \in 1..Len(recorded[path]) :
                  get_version(f, k).content = recorded[path][k]
            /\ recorded[path] # <<>> =>
                  /\ get_current_version(f).content = Last(recorded[path])
                  /\ apply_diff(f.original_content, f.changes[1]) = recorded[path][1]

\* C20: a record_change on a tracked path adds one change to that file's
\* history and keeps the changes it had, leaves every other tracked file as it
\* was, and calls notify() once on each registered observer.
C20_RecordChangeFrame ==
    [][\A path \in TrackedPaths :
          recorded'[path] # recorded[path] =>
             /\ Len(changing_files'[path].changes) = Len(changing_files[path].changes) + 1
             /\ SubSeq(changing_files'[path].changes, 1, Len(changing_files[path].changes))
                   = changing_files[path].changes
             /\ \A other \in TrackedPaths \ {path} :
                   changing_files'[other] = changing_files[other]
             /\ Len(observers') = Len(observers)
             /\ \A i \in DOMAIN observers : observers'[i] = observers[i] + 1]_vars
C20_Witness ==
    /\ observers = <<1, 1>>
    /\ Len(changing_files["file1.txt"].changes) = 1
    /\ changing_files["file1.txt"].changes[1] # <<>>
    /\ changing_files["file2.txt"].changes = <<>>

\* C21: within one response the pending tool name is set once and the first
\* occurrence wins: once a chunk of the response has named a tool, no later
\* chunk of that response changes the name, so the name handed to the tool
\* invoker is the one of the earliest chunk that carried one.
C21_FirstNameWins ==
    [][ (pc = "read" /\ name # "") => name' = name ]_vars

\* C22: once a chunk with finish reason "tool_calls" has been read from a
\* response, no text of that response is emitted: the response is not read
\* again, and what the caller receives next is not the chunk's own text but the
\* first fragment of the tool invoker (a newline).
C22_NoTextAfterToolCalls ==
    \A k \in DOMAIN fetched :
        (fetched[k].chunk /\ ~fetched[k].yields) =>
            /\ \A j \in (k + 1)..Len(fetched) :
                   fetched[j].response # fetched[k].response
            /\ Len(out) > fetched[k].at => out[fetched[k].at + 1] = <<"\n">>
C22_Witness ==
    \E k \in DOMAIN fetched :
        /\ fetched[k].chunk /\ ~fetched[k].yields
        /\ fetched[k].fragment = <<"a">>
        /\ Len(out) > fetched[k].at
        /\ pc = "raised"

\* C23: whenever a tool is executed, an assistant message recording the call
\* (the name and the raw argument string) is appended to the history before
\* the tool runs: it is the first message the step adds, and if the tool raises
\* it is the only one, so the history ends with it.
C23_CallRecordedFirst ==
    [][ Len(executed') > Len(executed) =>
          /\ Len(messages') > Len(messages)
          /\ SubSeq(messages', 1, Len(messages)) = messages
          /\ messages'[Len(messages) + 1] =
                 Message("assistant", <<>>, "",
                         [name |-> name, arguments |-> arguments])
          /\ error' = "ToolError" => Len(messages') = Len(messages) + 1
      ]_vars
C23_Witness ==
    /\ error = "ToolError" /\ pc = "raised"
    /\ executed = << ShellTool >>
    /\ Last(messages).role = "assistant"
    /\ Last(messages).function_call = [name |-> ShellTool,
                                        arguments |-> <<ArgOpen, ArgClose>>]

\* C24: a turn that fails with a tool-argument parse error leaves no partial
\* state: the history after the failing step is the history the tool invoker
\* was called with, in Handler and in AgentABC.
C24_ParseErrorLeavesHistory ==
    [][ (pc = "tool" /\ error' = "JSONDecodeError") => messages' = messages ]_vars

\* C25: a request made with caching disabled ignores the stored entries: the
\* wrapper calls the compute function (a completion request is made) and
\* returns nothing from the store, also when an entry for the request's
\* fingerprint exists.
C25_DisabledCachingComputes ==
    [][ (pc = "call" /\ ~caching /\ pc' # "call") =>
          /\ hit' = hit
          /\ out' = out
          /\ Len(requests') = Len(requests) + 1
      ]_vars
C25_Witness ==
    /\ pc = "read" /\ ~caching /\ ~hit
    /\ Len(stack) = 1 /\ Exists(dir, stack[1].key)
    /\ Len(requests) = 1 /\ out = <<>>

\* C26: in a multi-leg turn only the first leg can be cached: when the wrapper
\* of a continuation request (a request made after a tool call, with
\* caching=False) finishes, no entry under that request's key has been created
\* or overwritten.
C26_ContinuationNotStored ==
    [][ (pc = "return" /\ Len(stack) > 1) =>
          {f \in dir' : f.name = stack[Len(stack)].key} \subseteq dir ]_vars

\* C27: a turn terminates when every stream is finite, every tool returns, the
\* operator answers and the model stops asking for tools after finitely many
\* legs: a turn that has been started ends (normally or with an exception); and
\* the recursion stops at the first leg whose stream ends without a
\* "tool_calls" finish reason, and at the first decline: no request is made
\* in the turn after either.
C27_TurnTerminates ==
    /\ (pc = "call") ~> (pc \in {"done", "raised"})
    /\ [][ (responses # <<>> /\ Last(responses) = "exhausted")
              => Len(requests') <= Len(requests) ]_vars
    /\ [][ declined => Len(requests') <= Len(requests) ]_vars
C27_Witness ==
    /\ pc = "done" /\ Len(requests) = MaxLegs
    /\ Last(responses) = "exhausted"
    /\ executed # <<>>

\* C28: every function-role message of a history is immediately preceded by
\* an assistant-role message whose function_call names the same tool.
C28_FunctionFollowsCall ==
    \A i \in DOMAIN messages :
        messages[i].role = "function" =>
            /\ i > 1
            /\ messages[i - 1].role = "assistant"
            /\ messages[i - 1].function_call.name = messages[i].name

\* C29: a tool that is not exposed to the model is never executed, whatever
\* tool name the model streams: every tool executed in a turn is one of the
\* tools whose schema get_openai_schemas() hands out.
C29_OnlyExposedToolsRun ==
    \A i \in DOMAIN executed : executed[i] \in get_openai_schemas

\* C30: a completion request issued by Handler.get_completion with no
\* functions, or for a shell, code or describe-shell role, carries no tools and
\* no tool_choice parameter, whatever requests were issued before it in the
\* process.
C30_NoToolsWithoutFunctions ==
    \A i \in DOMAIN sent :
        (sent[i].functions \in {Null, <<>>}
            \/ sent[i].role \in {"SHELL", "CODE", "DESCRIBE_SHELL"})
        => (sent[i].tools = Absent /\ sent[i].tool_choice = Absent)

\* C31: a cache hit leaves the store unchanged: the step that serves a request
\* from an entry creates no entry, deletes none (eviction does not run: the
\* listing of the last eviction stays as it was) and changes no entry's body or
\* modification time.
C31_HitLeavesStore ==
    [][ (hit' /\ ~hit) => (dir' = dir /\ files' = files /\ now' = now) ]_vars
C31_Witness ==
    /\ hit /\ pc = "done" /\ Len(out) = 1 /\ requests = <<>>
    /\ Cardinality(dir) = 2
    /\ \E f \in dir : f.name = HitKey /\ f.mtime < now

\* C32: an entry written by a call made with caching=False is never returned
\* by a later call: a hit occurs only for caching=True, and the entry it reads
\* (the one named by the call's arguments) was not stored by a call made with
\* caching=False.
C32_UncachedEntryNeverServed ==
    [][ (hit' /\ ~hit) =>
          /\ caching
          /\ \A w \in wrote :
                 (/\ w.name.messages = messages
                  /\ w.name.temperature = temperature
                  /\ w.name.caching = caching) => w.caching
      ]_vars
C32_Witness ==
    /\ pc = "read" /\ caching /\ ~hit /\ Len(requests) = 1 /\ fetched = <<>>
    /\ \E w \in wrote :
          /\ ~w.caching /\ Exists(dir, w.name)
          /\ w.name.messages = messages
          /\ w.name.temperature = temperature

\* C33: when two processes that share one cache directory run the miss path
\* concurrently, both complete without a filesystem error under every
\* interleaving of their write, listing, stat and unlink steps.
C33_NoFilesystemError ==
    \A p \in DOMAIN procs : procs[p].error = "none"

\* C34: the version memo of a ChangingFile never goes stale: every memoized
\* version v holds what recomputing gives at that moment, the original content
\* with the first v recorded diffs applied, so get_version(v), which returns
\* the memoized content when there is one, returns the recomputed content.
C34_MemoNeverStale ==
    \A path \in DOMAIN changing_files :
        \A e \in changing_files[path].cache :
            e.content =
                ApplyAll(changing_files[path].original_content,
                         SubSeq(changing_files[path].changes, 1,
                                Min(e.version, Len(changing_files[path].changes))))


\* C35: route_to_agent routes by prefix: for "@name message" with name
\* registered, do_execute sends exactly the fragments of that agent's
\* handle(message); with name not registered, the single fragment
\* "Agent 'name' not found."; for input that does not start with "@", the
\* fragments of the default agent.
C35_Expected(e) ==
    IF StartsWithAt(e.code)
    THEN IF AgentNameOf(SplitOnce(e.code, FirstSpace(e.code))) \in e.registry
         THEN AgentReply(AgentNameOf(SplitOnce(e.code, FirstSpace(e.code))),
                         MessageOf(SplitOnce(e.code, FirstSpace(e.code))))
         ELSE NotFound(AgentNameOf(SplitOnce(e.code, FirstSpace(e.code))))
    ELSE AgentReply(DefaultAgentName, e.code)
C35_RoutesByPrefix ==
    \A i \in DOMAIN stream :
        ~stream[i].silent => stream[i].text = C35_Expected(stream[i])


\* C36: FilesView.record_change on a path that is not tracked raises
\* ValueError, records no change on any file and notifies no observer; and no
\* other call on the view ends in ValueError.
C36_UntrackedStep ==
    \E file_path \in Paths \ TrackedPaths, new_content \in Contents :
        RecordChange(file_path, new_content)
C36_UntrackedRaises ==
    [][ /\ C36_UntrackedStep =>
            /\ returned'.raised = "ValueError"
            /\ changing_files' = changing_files
            /\ recorded' = recorded
            /\ observers' = observers
        /\ (ncalls' # ncalls /\ returned'.raised = "ValueError") =>
            C36_UntrackedStep ]_vars
C36_Witness ==
    /\ returned.raised = "ValueError"
    /\ observers = <<1>>
    /\ recorded["file1.txt"] # <<>>
    /\ changing_files["file1.txt"].changes # <<>>

====
